---- MODULE Spec2Model ----
(***************************************************************************)
(* Prime Number Layer System (layer_system.py).                            *)
(*                                                                         *)
(* The batch pipeline LayerSystem(n_primes) -> verify_bijection is modelled *)
(* as a sequential program: generate_primes, generate_composites,          *)
(* _compute_layers (with its void search loop) and verify_bijection.  The  *)
(* pipeline may be run again on the same n_primes, keeping the records of  *)
(* the previous run for comparison.                                        *)
(***************************************************************************)
EXTENDS Integers, Sequences, FiniteSets

\* ---------------------------------------------------------------- bounds
MaxNegative == 2    \* n_primes is tried down to -MaxNegative
MaxN == 10          \* largest n_primes tried
MaxRuns == 2        \* number of times the pipeline is run on one n_primes

\* ------------------------------------------------------- pure arithmetic

\* int(x ** 0.5): the integer part of the square root
ISqrt(x) == CHOOSE r \in 0..x : r * r <= x /\ (r + 1) * (r + 1) > x

\* ------------------------------------------------- sieve_of_eratosthenes

SieveOuterLastOffByOne(lim) == ISqrt(lim) - 1

\* last i of range(2, int(limit ** 0.5) + 1)
SieveOuterLast(lim) == ISqrt(lim)

RECURSIVE SieveInner(_, _, _, _)
\* for j in range(i * i, limit + 1, i): is_prime[j] = False
SieveInner(is_prime, i, j, lim) ==
    IF j > lim THEN is_prime
    ELSE SieveInner([is_prime EXCEPT ![j] = FALSE], i, j + i, lim)

RECURSIVE SieveOuter(_, _, _)
\* for i in range(2, int(limit ** 0.5) + 1): if is_prime[i]: <inner loop>
SieveOuter(is_prime, i, lim) ==
    IF i > SieveOuterLast(lim) THEN is_prime
    ELSE SieveOuter(IF is_prime[i] THEN SieveInner(is_prime, i, i * i, lim)
                    ELSE is_prime,
                    i + 1, lim)

sieve_of_eratosthenes(lim) ==
    IF lim < 2 THEN << >>
    ELSE LET is_prime0 == [x \in 0..lim |-> x \notin {0, 1}]
             is_prime == SieveOuter(is_prime0, 2, lim)
         IN  SelectSeq([x \in 1..(lim - 1) |-> x + 1], LAMBDA x : is_prime[x])

\* --------------------------------------------------------- generate_primes

EmptyRequestStrict(m) == m < 0

\* n <= 0: the request is answered with the empty list
EmptyRequest(m) == m <= 0

\* int(n * (math.log(n) + math.log(math.log(n)) + 2)) for n = 6, 7, ...,
\* the values the double-precision expression takes
EstimateTable ==
    << 26, 32, 38, 44, 51, 57, 64, 71, 78, 85, 92, 99, 107, 114, 121, 129,
       136, 144, 152, 159, 167, 175, 183, 190, 198, 206, 214, 222, 230, 238,
       246, 255, 263, 271, 279 >>

InitialLimitTooSmall(m) == IF m < 6 THEN 1 ELSE EstimateTable[m - 5]

\* the first sieve bound: 15 for n < 6, the estimate otherwise
InitialLimit(m) == IF m < 6 THEN 15 ELSE EstimateTable[m - 5]

\* int(limit * 1.5)
GrowLimit(lim) == (3 * lim) \div 2

\* ----------------------------------------------------- generate_composites

OddDivisorCandidatesOffByOne(m) == {i \in 3..(ISqrt(m) - 1) : i % 2 = 1}

\* range(3, int(num ** 0.5) + 1, 2)
OddDivisorCandidates(m) == {i \in 3..ISqrt(m) : i % 2 = 1}

\* the classification of num inside the scan loop
is_composite(m) ==
    IF m < 2 THEN FALSE
    ELSE IF m = 2 THEN FALSE
    ELSE IF m % 2 = 0 THEN TRUE
    ELSE \E i \in OddDivisorCandidates(m) : m % i = 0

\* ---------------------------------------------------------- _compute_layers

FixedEndpointsForgetsPrime(p) == IF p = 2 THEN {1, 2} ELSE {2}

\* endpoints.update([1, 2]) for p == 2, endpoints.update([2, 3]) for p == 3
FixedEndpoints(p) == IF p = 2 THEN {1, 2} ELSE {2, 3}

\* v = 1 for p == 2, v = 2 for p == 3
FixedVoid(p) == IF p = 2 THEN 1 ELSE 2

NextCandidateSkips(c) == c + 2

\* v += 1
NextCandidate(c) == c + 1

ClaimEndpointsForgetsVoid(E, c, p) == E \cup {p}

\* endpoints.add(v); endpoints.add(p)
ClaimEndpoints(E, c, p) == (E \cup {c}) \cup {p}

SumReversed(p, c) == c - p

\* s = p - v
Sum(p, c) == p - c

\* 'ratio': p / s if s > 0 else None; the quotient is kept as the pair
\* <<p, s>>, None as the empty tuple
Ratio(p, s) == IF s > 0 THEN <<p, s>> ELSE << >>

\* the dictionary appended to self.results
Record(rank, p, c) ==
    [k |-> rank, prime |-> p, void |-> c, sum |-> Sum(p, c),
     ratio |-> Ratio(p, Sum(p, c))]

\* ---------------------------------------------------------- verify_bijection

\* self.composites[k - 3] (0-indexed) is element k - 2 of the sequence
ExpectedComposite(comps, rank) == comps[rank - 2]

RECURSIVE VerifyLoop(_, _, _, _)
\* for result in self.results: count matches, collect mismatches
VerifyLoop(res, comps, i, acc) ==
    IF i > Len(res) THEN acc
    ELSE LET r == res[i]
         IN  IF r.k >= 3
             THEN IF r.void = ExpectedComposite(comps, r.k)
                  THEN VerifyLoop(res, comps, i + 1,
                                  [acc EXCEPT !.matches = @ + 1])
                  ELSE VerifyLoop(res, comps, i + 1,
                                  [acc EXCEPT !.mismatches =
                                      Append(@, [k |-> r.k, void |-> r.void,
                                                 expected |->
                                                   ExpectedComposite(comps, r.k)])])
             ELSE VerifyLoop(res, comps, i + 1, acc)

\* the dictionary verify_bijection returns; accuracy = 100 * matches / total
\* is kept as the exact quotient <<100 * matches, total>>, 0 as <<0, 1>>
verify_bijection(res, comps) ==
    LET acc == VerifyLoop(res, comps, 1, [matches |-> 0, mismatches |-> << >>])
        total == Len(SelectSeq(res, LAMBDA r : r.k >= 3))
    IN  [total |-> total,
         matches |-> acc.matches,
         accuracy |-> IF total > 0 THEN <<100 * acc.matches, total>>
                      ELSE <<0, 1>>,
         mismatches |-> acc.mismatches]

NoVerification ==
    [total |-> 0, matches |-> 0, accuracy |-> <<0, 1>>, mismatches |-> << >>]

\* ------------------------------------------------------------------ state

VARIABLES
    n_primes,      \* self.n_primes, the request
    pc,            \* position in the pipeline
    limit,         \* generate_primes: the sieve bound
    sieved,        \* generate_primes: the local list primes (sieve output)
    primes,        \* self.primes
    num,           \* generate_composites: the scan candidate
    composites,    \* generate_composites: composites; then self.composites
    endpoints,     \* _compute_layers: the used-endpoints set
    k,             \* _compute_layers: the rank of the for loop
    v,             \* _compute_layers: the void candidate
    results,       \* self.results
    verification,  \* the dictionary returned by verify_bijection
    run,           \* number of the current run of the pipeline
    prev_results   \* self.results of the previous run

vars == <<n_primes, pc, limit, sieved, primes, num, composites, endpoints,
          k, v, results, verification, run, prev_results>>

Init ==
    /\ n_primes \in (0 - MaxNegative)..MaxN
    /\ pc = "gp_start"
    /\ limit = 0
    /\ sieved = << >>
    /\ primes = << >>
    /\ num = 0
    /\ composites = << >>
    /\ endpoints = {}
    /\ k = 0
    /\ v = 0
    /\ results = << >>
    /\ verification = NoVerification
    /\ run = 1
    /\ prev_results = << >>

\* --------------------------------------------------------- generate_primes

\* entry of generate_primes: the guard, the estimate and the first sieve
GeneratePrimesStart ==
    /\ pc = "gp_start"
    /\ IF EmptyRequest(n_primes)
       THEN /\ primes' = << >>
            /\ pc' = "gc_start"
            /\ UNCHANGED <<limit, sieved>>
       ELSE /\ limit' = InitialLimit(n_primes)
            /\ sieved' = sieve_of_eratosthenes(InitialLimit(n_primes))
            /\ pc' = "gp_loop"
            /\ UNCHANGED primes
    /\ UNCHANGED <<n_primes, num, composites, endpoints, k, v, results,
                   verification, run, prev_results>>

\* while len(primes) < n: grow and resieve; otherwise return primes[:n]
GeneratePrimesLoop ==
    /\ pc = "gp_loop"
    /\ IF Len(sieved) < n_primes
       THEN /\ limit' = GrowLimit(limit)
            /\ sieved' = sieve_of_eratosthenes(GrowLimit(limit))
            /\ UNCHANGED <<pc, primes>>
       ELSE /\ primes' = SubSeq(sieved, 1, n_primes)
            /\ pc' = "gc_start"
            /\ UNCHANGED <<limit, sieved>>
    /\ UNCHANGED <<n_primes, num, composites, endpoints, k, v, results,
                   verification, run, prev_results>>

\* ----------------------------------------------------- generate_composites

\* entry of generate_composites: the guard, composites = [], num = 4
GenerateCompositesStart ==
    /\ pc = "gc_start"
    /\ composites' = << >>
    /\ IF EmptyRequest(n_primes)
       THEN /\ pc' = "cl_start"
            /\ UNCHANGED num
       ELSE /\ num' = 4
            /\ pc' = "gc_loop"
    /\ UNCHANGED <<n_primes, limit, sieved, primes, endpoints, k, v, results,
                   verification, run, prev_results>>

\* one iteration of while len(composites) < n
GenerateCompositesStep ==
    /\ pc = "gc_loop"
    /\ Len(composites) < n_primes
    /\ composites' = IF is_composite(num) THEN Append(composites, num)
                     ELSE composites
    /\ num' = num + 1
    /\ UNCHANGED <<n_primes, pc, limit, sieved, primes, endpoints, k, v,
                   results, verification, run, prev_results>>

\* the loop condition fails: return composites
GenerateCompositesReturn ==
    /\ pc = "gc_loop"
    /\ ~(Len(composites) < n_primes)
    /\ pc' = "cl_start"
    /\ UNCHANGED <<n_primes, limit, sieved, primes, num, composites,
                   endpoints, k, v, results, verification, run, prev_results>>

\* ---------------------------------------------------------- _compute_layers

ComputeLayersStartKeepsEndpoints ==
    /\ pc = "cl_start"
    /\ results' = << >>
    /\ k' = 1
    /\ pc' = "cl_loop"
    /\ UNCHANGED <<n_primes, limit, sieved, primes, num, composites,
                   endpoints, v, verification, run, prev_results>>

\* endpoints = set(); self.results = []; the for loop starts at rank 1
ComputeLayersStart ==
    /\ pc = "cl_start"
    /\ endpoints' = {}
    /\ results' = << >>
    /\ k' = 1
    /\ pc' = "cl_loop"
    /\ UNCHANGED <<n_primes, limit, sieved, primes, num, composites, v,
                   verification, run, prev_results>>

\* an iteration for p == 2 or p == 3: the hard-coded void
ComputeLayersFixed ==
    /\ pc = "cl_loop"
    /\ k <= Len(primes)
    /\ primes[k] \in {2, 3}
    /\ v' = FixedVoid(primes[k])
    /\ endpoints' = endpoints \cup FixedEndpoints(primes[k])
    /\ results' = Append(results, Record(k, primes[k], FixedVoid(primes[k])))
    /\ k' = k + 1
    /\ UNCHANGED <<n_primes, pc, limit, sieved, primes, num, composites,
                   verification, run, prev_results>>

\* an iteration for any other prime begins: v = 1
VoidSearchStart ==
    /\ pc = "cl_loop"
    /\ k <= Len(primes)
    /\ primes[k] \notin {2, 3}
    /\ v' = 1
    /\ pc' = "cl_search"
    /\ UNCHANGED <<n_primes, limit, sieved, primes, num, composites,
                   endpoints, k, results, verification, run, prev_results>>

\* while v in endpoints: v += 1
VoidSearchStep ==
    /\ pc = "cl_search"
    /\ v \in endpoints
    /\ v' = NextCandidate(v)
    /\ UNCHANGED <<n_primes, pc, limit, sieved, primes, num, composites,
                   endpoints, k, results, verification, run, prev_results>>

\* the search ends: claim v and p, append the record
VoidFound ==
    /\ pc = "cl_search"
    /\ v \notin endpoints
    /\ endpoints' = ClaimEndpoints(endpoints, v, primes[k])
    /\ results' = Append(results, Record(k, primes[k], v))
    /\ k' = k + 1
    /\ pc' = "cl_loop"
    /\ UNCHANGED <<n_primes, limit, sieved, primes, num, composites, v,
                   verification, run, prev_results>>

\* the for loop is exhausted
ComputeLayersEnd ==
    /\ pc = "cl_loop"
    /\ k > Len(primes)
    /\ pc' = "vb"
    /\ UNCHANGED <<n_primes, limit, sieved, primes, num, composites,
                   endpoints, k, v, results, verification, run, prev_results>>

\* ---------------------------------------------------------- verify_bijection

VerifyBijection ==
    /\ pc = "vb"
    /\ verification' = verify_bijection(results, composites)
    /\ pc' = "done"
    /\ UNCHANGED <<n_primes, limit, sieved, primes, num, composites,
                   endpoints, k, v, results, run, prev_results>>

\* ------------------------------------------------------------ a second run

\* LayerSystem(n_primes) is constructed again on the same n_primes:
\* self.results = [] before the builders and _compute_layers run
Rerun ==
    /\ pc = "done"
    /\ run < MaxRuns
    /\ run' = run + 1
    /\ prev_results' = results
    /\ results' = << >>
    /\ pc' = "gp_start"
    /\ UNCHANGED <<n_primes, limit, sieved, primes, num, composites,
                   endpoints, k, v, verification>>

Next ==
    \/ GeneratePrimesStart
    \/ GeneratePrimesLoop
    \/ GenerateCompositesStart
    \/ GenerateCompositesStep
    \/ GenerateCompositesReturn
    \/ ComputeLayersStart
    \/ ComputeLayersFixed
    \/ VoidSearchStart
    \/ VoidSearchStep
    \/ VoidFound
    \/ ComputeLayersEnd
    \/ VerifyBijection
    \/ Rerun

Spec == Init /\ [][Next]_vars

\* the program is sequential and keeps executing until the pipeline is done
SpecLive == Spec /\ WF_vars(Next)

\* ------------------------------------------------- reference definitions

IsPrime(x) == x >= 2 /\ \A d \in 2..(x - 1) : x % d # 0

IsCompositeNumber(x) == x >= 4 /\ ~IsPrime(x)

StrictlyIncreasing(s) == \A i \in 1..(Len(s) - 1) : s[i] < s[i + 1]

Range(s) == {s[i] : i \in 1..Len(s)}

\* generate_primes has returned and self.primes is assigned
PrimesReturned == pc \notin {"gp_start", "gp_loop"}

\* generate_composites has returned and self.composites is assigned
CompositesReturned == pc \in {"cl_start", "cl_loop", "cl_search", "vb", "done"}

\* _compute_layers is running or has run on the current primes
InLayers == pc \in {"cl_loop", "cl_search", "vb", "done"}

\* ------------------------------------------------------------------ claims

\* C1: for n_primes >= 3 every record of rank k >= 3 has void equal to
\* composites[k-3] (0-indexed), and verify_bijection returns
\* total = matches = n_primes - 2, no mismatches and accuracy 100.
C1_Bijection ==
    /\ (InLayers /\ n_primes >= 3) =>
           \A i \in 1..Len(results) :
               results[i].k >= 3 =>
                   results[i].void = composites[results[i].k - 2]
    /\ (pc = "done" /\ n_primes >= 3) =>
           /\ verification.total = n_primes - 2
           /\ verification.matches = n_primes - 2
           /\ verification.mismatches = << >>
           /\ verification.accuracy[1] = 100 * verification.accuracy[2]

C1_Witness ==
    /\ pc = "done"
    /\ n_primes >= 10
    /\ verification.matches >= 8
    /\ results[10].void = 15

\* C2: for n >= 0 generate_primes(n) has length n, holds only primes, is
\* strictly increasing and skips no prime; generate_primes(10) is
\* 2, 3, 5, 7, 11, 13, 17, 19, 23, 29.
C2_FirstPrimes ==
    (PrimesReturned /\ n_primes >= 0) =>
        /\ Len(primes) = n_primes
        /\ \A i \in 1..Len(primes) : IsPrime(primes[i])
        /\ StrictlyIncreasing(primes)
        /\ Len(primes) > 0 =>
               \A x \in 2..primes[Len(primes)] :
                   IsPrime(x) => x \in Range(primes)
        /\ n_primes = 10 => primes = <<2, 3, 5, 7, 11, 13, 17, 19, 23, 29>>

C2_Witness ==
    /\ pc = "gc_start"
    /\ run = 1
    /\ n_primes = 10
    /\ Len(primes) = 10

\* C3: for n >= 0 generate_composites(n) is the first n composite integers,
\* strictly increasing from 4, none skipped and no prime included;
\* generate_composites(10) is 4, 6, 8, 9, 10, 12, 14, 15, 16, 18.
C3_FirstComposites ==
    (CompositesReturned /\ n_primes >= 0) =>
        /\ Len(composites) = n_primes
        /\ \A i \in 1..Len(composites) : IsCompositeNumber(composites[i])
        /\ StrictlyIncreasing(composites)
        /\ Len(composites) > 0 =>
               /\ composites[1] = 4
               /\ \A x \in 4..composites[Len(composites)] :
                      IsCompositeNumber(x) => x \in Range(composites)
        /\ n_primes = 10 =>
               composites = <<4, 6, 8, 9, 10, 12, 14, 15, 16, 18>>

C3_Witness ==
    /\ pc = "cl_start"
    /\ run = 1
    /\ n_primes = 10
    /\ Len(composites) = 10

\* C4: at every point every record satisfies prime = void + sum, the record
\* at position i has rank i and the i-th prime, and after the pass there is
\* exactly one record per prime.
C4_RecordIdentity ==
    /\ Len(results) <= Len(primes)
    /\ \A i \in 1..Len(results) :
           /\ results[i].prime = results[i].void + results[i].sum
           /\ results[i].k = i
           /\ results[i].prime = primes[i]
    /\ pc \in {"vb", "done"} => Len(results) = Len(primes)

C4_Witness ==
    /\ pc = "vb"
    /\ Len(results) >= 5
    /\ results[5].sum = 3

\* C5: the void of every record of rank k >= 3 differs from the void of
\* every record of smaller rank and from the prime of every record of
\* smaller or equal rank.
C5_VoidUnique ==
    \A i \in 1..Len(results) :
        results[i].k >= 3 =>
            /\ \A j \in 1..(i - 1) : results[i].void # results[j].void
            /\ \A j \in 1..i : results[i].void # results[j].prime

C5_Witness ==
    /\ pc = "cl_loop"
    /\ Len(results) >= 6
    /\ results[6].void = 9

\* C6: for n <= 0 both builders return the empty sequence and never reach
\* their search code (no sieve is run, no candidate is scanned).
C6_EmptyRequest ==
    n_primes <= 0 =>
        /\ pc \notin {"gp_loop", "gc_loop"}
        /\ limit = 0 /\ sieved = << >> /\ num = 0
        /\ PrimesReturned => primes = << >>
        /\ CompositesReturned => composites = << >>

C6_Witness ==
    /\ n_primes < 0
    /\ pc = "cl_start"
    /\ primes = << >>
    /\ composites = << >>

\* C7: a second run of the pipeline on the same n_primes produces the same
\* records as the first; every pass of _compute_layers starts from an empty
\* used-endpoints set and an empty result list.
C7_Idempotent ==
    /\ (pc = "cl_loop" /\ k = 1) => (endpoints = {} /\ results = << >>)
    /\ (pc \in {"vb", "done"} /\ run >= 2) => results = prev_results

C7_Witness ==
    /\ pc = "done"
    /\ run = 2
    /\ Len(prev_results) >= 5
    /\ results = prev_results

ClaimedUpTo(m) ==
    {results[j].void : j \in 1..m} \cup {results[j].prime : j \in 1..m}

\* C10: when the record of rank k >= 3 is computed the used-endpoints set is
\* exactly the voids and primes of ranks 1..k-1, the void chosen is the
\* smallest positive integer outside it, and the set then grows strictly by
\* that void and the rank-k prime; the set never shrinks during the pass.
C10_SmallestFreeVoid ==
    [][ /\ pc = "cl_search" =>
               /\ k >= 3
               /\ Len(results) = k - 1
               /\ endpoints = ClaimedUpTo(k - 1)
        /\ (pc = "cl_search" /\ pc' = "cl_loop") =>
               /\ results'[k].void >= 1
               /\ results'[k].void \notin endpoints
               /\ \A c \in 1..(results'[k].void - 1) : c \in endpoints
               /\ endpoints' = endpoints \cup {results'[k].void, primes[k]}
               /\ endpoints' # endpoints
        /\ (pc \in {"cl_loop", "cl_search"}) => endpoints \subseteq endpoints'
      ]_vars

C10_Witness ==
    /\ pc = "cl_loop"
    /\ k = 7
    /\ endpoints = {1, 2, 3, 4, 5, 6, 7, 8, 9, 11, 13}

====
